---- MODULE Spec2Model ----
(***************************************************************************)
(* Linker (VS Code extension): the undo/redo ledger (HistoryManager), the  *)
(* rename orchestrator's apply step, and the import-path rewriting          *)
(* functions, modelled from the TypeScript sources.                         *)
(*                                                                          *)
(* Spec       sequential (non-overlapping) calls on the shared ledger       *)
(* SpecAsync  overlapping undo/redo/addEntry calls, split at every await    *)
(* SpecRename the path matching / rewriting functions on bounded inputs     *)
(***************************************************************************)
EXTENDS Integers, Sequences, FiniteSets, TLC

(***************************************************************************)
(* Bounds of the model                                                      *)
(***************************************************************************)
\* number of rename batches that are applied (ids rename-1 .. rename-MaxRenames)
MaxRenames == 3
\* history.maxEntries is drawn from 1 .. MaxCap (documented range 10-100, scaled)
MaxCap == 2
\* number of host calls (openTextDocument, applyEdit) that fail in one behaviour
MaxFaults == 1
MaxOverlapRenames == 2

\* workspace documents and the texts a document can hold
Files == {"f1", "f2"}
Contents == {"a", "b"}
\* newContent placeholder written by the snapshot loop (renameHandler.ts:1134)
Placeholder == ""

(***************************************************************************)
(* historyManager.ts: state                                                 *)
(***************************************************************************)
VARIABLES
    history,        \* HistoryManager.history  (HistoryEntry[])
    currentIndex,   \* HistoryManager.currentIndex (0-based, -1 = nothing to undo)
    maxEntries,     \* HistoryManager.maxEntries (read once, in the constructor)
    enabled,        \* configuration linker.history.enabled, as every addEntry reads it
                    \* (the setting is not changed during a session)
    files,          \* text of every workspace document
    nextId,         \* Date.now() of the next entry id
    faults,         \* host calls that have failed so far
    last,           \* the call that ran last: its result, the cursor and length it started from
    calls,          \* the undo() / redo() calls in flight (SpecAsync), per command invocation
    rn,             \* the rename being processed (SpecRename): request, candidate file, edits
    bt,             \* the edit computation in progress (SpecBatch): files, worker pool, timer
    fl,             \* the rename event being handled (SpecFlow): settings, edits, outcome
    fn,             \* the path function being applied: its arguments and its result
    dv,             \* the preview panel (SpecView): pending confirmations, the resolver
    pl              \* one processWithLimit call (SpecPool): items, promises, token


vars == <<history, currentIndex, maxEntries, enabled, files, nextId, faults, last, calls, rn, bt, fl, fn, dv, pl>>

\* FileChange (timestamps dropped)
FileChange(f, orig, new) == [filePath |-> f, originalContent |-> orig, newContent |-> new]

\* HistoryEntry
HistoryEntry(id, changes) == [id |-> id, changes |-> changes]

\* JS Array.prototype.slice(0, n)
Slice0(s, n) == SubSeq(s, 1, n)

\* HistoryManager.canUndo
canUndo(idx) == idx >= 0

\* HistoryManager.canRedo
canRedo(h, idx) == idx < Len(h) - 1

(***************************************************************************)
(* HistoryManager.addEntry on (history, currentIndex): the pair afterwards  *)
(***************************************************************************)
AddEntryNoTruncate(h, idx, cap, entry) ==
    LET h2 == Append(h, entry)
        i2 == idx + 1
    IN  IF Len(h2) > cap THEN [h |-> Tail(h2), idx |-> i2 - 1]
                         ELSE [h |-> h2, idx |-> i2]

AddEntryEvictNewest(h, idx, cap, entry) ==
    LET h1 == IF idx < Len(h) - 1 THEN Slice0(h, idx + 1) ELSE h
        h2 == Append(h1, entry)
        i2 == idx + 1
    IN  IF Len(h2) > cap THEN [h |-> Slice0(h2, Len(h2) - 1), idx |-> i2 - 1]
                         ELSE [h |-> h2, idx |-> i2]

AddEntryKeepCursor(h, idx, cap, entry) ==
    LET h1 == IF idx < Len(h) - 1 THEN Slice0(h, idx + 1) ELSE h
        h2 == Append(h1, entry)
        i2 == idx + 1
    IN  IF Len(h2) > cap THEN [h |-> Tail(h2), idx |-> i2]
                         ELSE [h |-> h2, idx |-> i2]

addEntry(h, idx, cap, entry) ==
    LET h1 == IF idx < Len(h) - 1 THEN Slice0(h, idx + 1) ELSE h
        h2 == Append(h1, entry)
        i2 == idx + 1
    IN  IF Len(h2) > cap THEN [h |-> Tail(h2), idx |-> i2 - 1]
                         ELSE [h |-> h2, idx |-> i2]

(***************************************************************************)
(* The per-file loop of undo / redo.  outcome[k] is what the host does for  *)
(* the k-th change: "ok" (document opened, edit applied), "rejected"        *)
(* (applyEdit resolved false; its result is not looked at), "throw"         *)
(* (openTextDocument rejected: the loop is left through the catch block).   *)
(***************************************************************************)
HostOutcomes == {"ok", "rejected", "throw"}

RECURSIVE WriteChanges(_, _, _, _, _)
WriteChanges(fs, changes, outcome, k, useOriginal) ==
    IF k > Len(changes) THEN [files |-> fs, threw |-> FALSE]
    ELSE IF outcome[k] = "throw" THEN [files |-> fs, threw |-> TRUE]
    ELSE LET c == changes[k]
             text == IF useOriginal THEN c.originalContent ELSE c.newContent
             fs2 == IF outcome[k] = "ok" THEN [fs EXCEPT ![c.filePath] = text] ELSE fs
         IN  WriteChanges(fs2, changes, outcome, k + 1, useOriginal)

\* what a call leaves in `last`; an undo also keeps the texts it started from
Called(op, ret) ==
    [op |-> op, ret |-> ret, preIndex |-> currentIndex, preLen |-> Len(history),
     preFiles |-> IF op = "undo" THEN files ELSE <<>>]

\* invocations of the linker.undo / linker.redo commands that can be in flight
CallIds == {"c1", "c2"}

\* a command invocation that is not running
Idle == [op |-> "idle", entry |-> HistoryEntry(0, <<>>), k |-> 0]

(***************************************************************************)
(* Init: the state after the HistoryManager singleton is constructed        *)
(***************************************************************************)
HInit ==
    /\ history = <<>>
    /\ currentIndex = -1
    /\ maxEntries \in 1..MaxCap
    /\ enabled \in BOOLEAN
    /\ files \in [Files -> {"a"}]
    /\ nextId = 1
    /\ faults = 0
    /\ last = [op |-> "init", ret |-> FALSE, preIndex |-> -1, preLen |-> 0, preFiles |-> <<>>]
    /\ calls = [c \in CallIds |-> Idle]

(***************************************************************************)
(* RenameHandler.applyEditsWithHistory.  fileList is the files of the       *)
(* FileEdit list of one rename batch, newText[i] the text of fileList[i]    *)
(* once its edits are applied.  snapOk[i] / captureOk[i] say whether        *)
(* openTextDocument succeeds for fileList[i] in the snapshot loop and in    *)
(* the capture loop; applyOk is what workspace.applyEdit resolves to.       *)
(***************************************************************************)
FileLists == {<<"f1">>, <<"f2">>, <<"f1", "f2">>}

\* how many of the host calls of one handler run failed
Failed(ok) == Cardinality({i \in DOMAIN ok : ~ok[i]})

NotOk(outcome) == Cardinality({i \in DOMAIN outcome : outcome[i] # "ok"})

\* nothing is asked of the host after the call that threw
StopsAtThrow(outcome) ==
    \A i, j \in DOMAIN outcome : (i < j /\ outcome[i] = "throw") => outcome[j] = "ok"

RECURSIVE Snapshot(_, _, _, _)
Snapshot(fileList, snapOk, fs, k) ==
    IF k > Len(fileList) THEN <<>>
    ELSE LET rest == Snapshot(fileList, snapOk, fs, k + 1)
         IN  IF snapOk[k]
             THEN <<FileChange(fileList[k], fs[fileList[k]], Placeholder)>> \o rest
             ELSE rest

\* the capture loop: fileChanges[i].newContent = doc.getText() of fileEdits[i];
\* a failing openTextDocument, or a missing fileChanges[i], is caught per file
Capture(fileChanges, fileList, captureOk, fs) ==
    [i \in 1..Len(fileChanges) |->
        IF i <= Len(fileList) /\ captureOk[i]
        THEN [fileChanges[i] EXCEPT !.newContent = fs[fileList[i]]]
        ELSE fileChanges[i]]

RECURSIVE ApplyBatch(_, _, _, _)
ApplyBatch(fs, fileList, newText, k) ==
    IF k > Len(fileList) THEN fs
    ELSE ApplyBatch([fs EXCEPT ![fileList[k]] = newText[k]], fileList, newText, k + 1)

ApplyEditsWithHistory(fileList, newText, snapOk, applyOk, captureOk) ==
    /\ nextId <= MaxRenames
    /\ \A i \in 1..Len(fileList) : newText[i] # files[fileList[i]]
    /\ applyOk \/ \A i \in 1..Len(fileList) : captureOk[i]
    /\ faults + Failed(snapOk) + Failed(captureOk) + (IF applyOk THEN 0 ELSE 1) <= MaxFaults
    /\ faults' = faults + Failed(snapOk) + Failed(captureOk) + (IF applyOk THEN 0 ELSE 1)
    /\ LET fileChanges == Snapshot(fileList, snapOk, files, 1)
           applied == ApplyBatch(files, fileList, newText, 1)
           entry == HistoryEntry(nextId, Capture(fileChanges, fileList, captureOk, applied))
           r == addEntry(history, currentIndex, maxEntries, entry)
       IN  IF applyOk
           THEN /\ files' = applied
                /\ nextId' = nextId + 1
                /\ IF enabled
                   THEN history' = r.h /\ currentIndex' = r.idx
                   ELSE UNCHANGED <<history, currentIndex>>
           ELSE UNCHANGED <<files, history, currentIndex, nextId>>
    /\ UNCHANGED <<maxEntries, enabled>>

\* one confirmed rename batch, its edits applied with history tracking
Apply ==
    \E fileList \in FileLists :
      \E newText \in [1..Len(fileList) -> Contents] :
        \E snapOk, captureOk \in [1..Len(fileList) -> BOOLEAN] :
          \E applyOk \in BOOLEAN :
            /\ ApplyEditsWithHistory(fileList, newText, snapOk, applyOk, captureOk)
            /\ last' = Called(IF applyOk /\ enabled THEN "addEntry" ELSE "apply", applyOk)
            /\ UNCHANGED <<calls, rn, bt, fl, fn, dv, pl>>

(***************************************************************************)
(* HistoryManager.undo, run to completion (no other call overlaps it)       *)
(***************************************************************************)
UndoDone(outcome) ==
    /\ StopsAtThrow(outcome)
    /\ faults + NotOk(outcome) <= MaxFaults
    /\ faults' = faults + NotOk(outcome)
    /\ canUndo(currentIndex)
    /\ LET entry == history[currentIndex + 1]
           r == WriteChanges(files, entry.changes, outcome, 1, TRUE)
       IN  /\ files' = r.files
           /\ currentIndex' = IF r.threw THEN currentIndex ELSE currentIndex - 1
           /\ last' = Called("undo", ~r.threw)
    /\ UNCHANGED <<history, maxEntries, enabled, nextId, calls, rn, bt, fl, fn, dv, pl>>

UndoNothing ==
    /\ ~canUndo(currentIndex)
    /\ last' = Called("undo", FALSE)
    /\ UNCHANGED <<history, currentIndex, maxEntries, enabled, files, nextId, faults, calls, rn, bt, fl, fn, dv, pl>>

Undo ==
    \/ UndoNothing
    \/ /\ canUndo(currentIndex)
       /\ \E outcome \in [1..Len(history[currentIndex + 1].changes) -> HostOutcomes] :
            UndoDone(outcome)

(***************************************************************************)
(* HistoryManager.redo, run to completion                                   *)
(***************************************************************************)
RedoDone(outcome) ==
    /\ StopsAtThrow(outcome)
    /\ faults + NotOk(outcome) <= MaxFaults
    /\ faults' = faults + NotOk(outcome)
    /\ canRedo(history, currentIndex)
    /\ LET idx == currentIndex + 1
           entry == history[idx + 1]
           r == WriteChanges(files, entry.changes, outcome, 1, FALSE)
       IN  /\ files' = r.files
           /\ currentIndex' = IF r.threw THEN idx - 1 ELSE idx
           /\ last' = Called("redo", ~r.threw)
    /\ UNCHANGED <<history, maxEntries, enabled, nextId, calls, rn, bt, fl, fn, dv, pl>>

RedoNothing ==
    /\ ~canRedo(history, currentIndex)
    /\ last' = Called("redo", FALSE)
    /\ UNCHANGED <<history, currentIndex, maxEntries, enabled, files, nextId, faults, calls, rn, bt, fl, fn, dv, pl>>

Redo ==
    \/ RedoNothing
    \/ /\ canRedo(history, currentIndex)
       /\ \E outcome \in [1..Len(history[currentIndex + 2].changes) -> HostOutcomes] :
            RedoDone(outcome)

\* HistoryManager.clearHistory
ClearHistory ==
    /\ history' = <<>>
    /\ currentIndex' = -1
    /\ last' = Called("clearHistory", TRUE)
    /\ UNCHANGED <<maxEntries, enabled, files, nextId, faults, calls, rn, bt, fl, fn, dv, pl>>

\* no rename request is being processed
NoRename == [stage |-> "none"]
NoBatch == [phase |-> "none"]
NoFlow == [step |-> "none"]
NoFunction == [name |-> "none"]
NoView == [panel |-> "none"]
NoPool == [phase |-> "none"]

Init == HInit /\ rn = NoRename /\ bt = NoBatch /\ fl = NoFlow /\ fn = NoFunction /\ dv = NoView /\ pl = NoPool

Next ==
    \/ Apply
    \/ Undo
    \/ Redo
    \/ ClearHistory

Spec == Init /\ [][Next]_vars

(***************************************************************************)
(* Overlapping calls.  undo() and redo() are async: a call runs up to its   *)
(* first await, is resumed once per file (openTextDocument, applyEdit and   *)
(* save of that file) and once more to leave the loop; between two of its   *)
(* steps any other call may run.  The ledger takes no lock.                 *)
(***************************************************************************)
InFlight(c, op, entry) == [calls EXCEPT ![c] = [op |-> op, entry |-> entry, k |-> 1]]

Returned(c) == [calls EXCEPT ![c] = Idle]

\* history[i] of the TypeScript array: undefined outside 0 .. length - 1
Defined(i) == 0 <= i /\ i <= Len(history) - 1

\* undo(): from the call to the first await (or to the return, when nothing is awaited)
UndoStart(c) ==
    /\ calls[c].op = "idle"
    /\ IF ~canUndo(currentIndex) \/ ~Defined(currentIndex)
       THEN UNCHANGED <<currentIndex, calls>>
       ELSE LET entry == history[currentIndex + 1]
            IN  IF entry.changes = <<>>
                THEN currentIndex' = currentIndex - 1 /\ UNCHANGED calls
                ELSE calls' = InFlight(c, "undo", entry) /\ UNCHANGED currentIndex
    /\ UNCHANGED <<history, maxEntries, enabled, files, nextId, faults, last, rn, bt, fl, fn, dv, pl>>

\* undo(): the awaits of one file of the entry the call read when it started
UndoFile(c, outcome) ==
    /\ calls[c].op = "undo"
    /\ calls[c].k <= Len(calls[c].entry.changes)
    /\ faults + (IF outcome = "ok" THEN 0 ELSE 1) <= MaxFaults
    /\ faults' = faults + (IF outcome = "ok" THEN 0 ELSE 1)
    /\ LET ch == calls[c].entry.changes[calls[c].k]
       IN  /\ files' = IF outcome = "ok"
                       THEN [files EXCEPT ![ch.filePath] = ch.originalContent]
                       ELSE files
           /\ calls' = IF outcome = "throw"
                       THEN Returned(c)
                       ELSE [calls EXCEPT ![c].k = @ + 1]
    /\ UNCHANGED <<history, currentIndex, maxEntries, enabled, nextId, last, rn, bt, fl, fn, dv, pl>>

\* undo(): after the last file, this.currentIndex-- and return true
UndoFinish(c) ==
    /\ calls[c].op = "undo"
    /\ calls[c].k > Len(calls[c].entry.changes)
    /\ currentIndex' = currentIndex - 1
    /\ calls' = Returned(c)
    /\ UNCHANGED <<history, maxEntries, enabled, files, nextId, faults, last, rn, bt, fl, fn, dv, pl>>

\* redo(): this.currentIndex++ and the read of the entry, up to the first await
RedoStart(c) ==
    /\ calls[c].op = "idle"
    /\ IF ~canRedo(history, currentIndex) \/ ~Defined(currentIndex + 1)
       THEN UNCHANGED <<currentIndex, calls>>
       ELSE LET entry == history[currentIndex + 2]
            IN  /\ currentIndex' = currentIndex + 1
                /\ calls' = IF entry.changes = <<>> THEN calls ELSE InFlight(c, "redo", entry)
    /\ UNCHANGED <<history, maxEntries, enabled, files, nextId, faults, last, rn, bt, fl, fn, dv, pl>>

\* redo(): the awaits of one file; the catch block takes the increment back
RedoFile(c, outcome) ==
    /\ calls[c].op = "redo"
    /\ calls[c].k <= Len(calls[c].entry.changes)
    /\ faults + (IF outcome = "ok" THEN 0 ELSE 1) <= MaxFaults
    /\ faults' = faults + (IF outcome = "ok" THEN 0 ELSE 1)
    /\ LET ch == calls[c].entry.changes[calls[c].k]
       IN  /\ files' = IF outcome = "ok"
                       THEN [files EXCEPT ![ch.filePath] = ch.newContent]
                       ELSE files
           /\ calls' = IF outcome = "throw"
                       THEN Returned(c)
                       ELSE [calls EXCEPT ![c].k = @ + 1]
           /\ currentIndex' = IF outcome = "throw" THEN currentIndex - 1 ELSE currentIndex
    /\ UNCHANGED <<history, maxEntries, enabled, nextId, last, rn, bt, fl, fn, dv, pl>>

\* redo(): after the last file, return true
RedoFinish(c) ==
    /\ calls[c].op = "redo"
    /\ calls[c].k > Len(calls[c].entry.changes)
    /\ calls' = Returned(c)
    /\ UNCHANGED <<history, currentIndex, maxEntries, enabled, files, nextId, faults, last, rn, bt, fl, fn, dv, pl>>

\* a confirmed rename batch reaches addEntry while undo / redo calls are in flight
ApplyDuringCalls ==
    /\ nextId <= MaxOverlapRenames
    /\ \E fileList \in FileLists :
         \E newText \in [1..Len(fileList) -> Contents] :
           \E snapOk, captureOk \in [1..Len(fileList) -> BOOLEAN] :
             \E applyOk \in BOOLEAN :
               /\ ApplyEditsWithHistory(fileList, newText, snapOk, applyOk, captureOk)
               /\ UNCHANGED <<last, calls, rn, bt, fl, fn, dv, pl>>

NextAsync ==
    \/ ApplyDuringCalls
    \/ \E c \in CallIds : UndoStart(c)
    \/ \E c \in CallIds : \E outcome \in HostOutcomes : UndoFile(c, outcome)
    \/ \E c \in CallIds : UndoFinish(c)
    \/ \E c \in CallIds : RedoStart(c)
    \/ \E c \in CallIds : \E outcome \in HostOutcomes : RedoFile(c, outcome)
    \/ \E c \in CallIds : RedoFinish(c)

SpecAsync == Init /\ [][NextAsync]_vars

(***************************************************************************)
(* Rename processing.  A path, an import specifier and an identifier are    *)
(* JavaScript strings: sequences of one-character strings.                  *)
(***************************************************************************)
\* the characters the regular-expression class \w accepts, among those used here
WordChars == {"u", "v", "x", "s", "w", "m", "t"}

\* String.prototype.startsWith / endsWith
startsWith(s, p) == Len(p) <= Len(s) /\ SubSeq(s, 1, Len(p)) = p

endsWith(s, p) == Len(p) <= Len(s) /\ SubSeq(s, Len(s) - Len(p) + 1, Len(s)) = p

\* the positions at which t occurs in s
Occurrences(s, t) == {i \in 1..(Len(s) - Len(t) + 1) : SubSeq(s, i, i + Len(t) - 1) = t}

\* String.prototype.includes
includes(s, t) == Occurrences(s, t) # {}

First(S) == CHOOSE m \in S : \A n \in S : m <= n

\* String.prototype.replace with a string pattern: the first occurrence only
replace(s, t, r) ==
    IF ~includes(s, t)
    THEN s
    ELSE LET i == First(Occurrences(s, t))
         IN  SubSeq(s, 1, i - 1) \o r \o SubSeq(s, i + Len(t), Len(s))

IsWordAt(s, i) == 1 <= i /\ i <= Len(s) /\ s[i] \in WordChars

\* the regular-expression assertion \b in front of position i
WordBoundary(s, i) == IsWordAt(s, i - 1) # IsWordAt(s, i)

\* importPath.replace(new RegExp(`\\b${t}\\b`, 'g'), r), scanning from position i
RECURSIVE replaceWords(_, _, _, _)
replaceWords(s, t, r, i) ==
    IF i > Len(s)
    THEN <<>>
    ELSE IF i \in Occurrences(s, t) /\ WordBoundary(s, i) /\ WordBoundary(s, i + Len(t))
         THEN r \o replaceWords(s, t, r, i + Len(t))
         ELSE <<s[i]>> \o replaceWords(s, t, r, i + 1)

\* String.prototype.split on a one-character separator
RECURSIVE split(_, _)
split(s, c) ==
    IF ~includes(s, <<c>>)
    THEN <<s>>
    ELSE LET i == First(Occurrences(s, <<c>>))
         IN  <<SubSeq(s, 1, i - 1)>> \o split(SubSeq(s, i + 1, Len(s)), c)

\* Array.prototype.join
RECURSIVE join(_, _)
join(parts, c) ==
    IF parts = <<>>
    THEN <<>>
    ELSE IF Len(parts) = 1
         THEN parts[1]
         ELSE parts[1] \o <<c>> \o join(Tail(parts), c)

\* path.posix.basename / dirname of a path without a trailing slash
basename(p) == LET parts == split(p, "/") IN parts[Len(parts)]

dirname(p) == LET parts == split(p, "/") IN join(SubSeq(parts, 1, Len(parts) - 1), "/")

\* the alternatives of /\.(js|ts|jsx|tsx|mjs|cjs)$/
JsExtensions ==
    { <<".", "j", "s">>,
      <<".", "t", "s">>,
      <<".", "j", "s", "x">>,
      <<".", "t", "s", "x">>,
      <<".", "m", "j", "s">>,
      <<".", "c", "j", "s">> }

\* s.replace(/\.(js|ts|jsx|tsx|mjs|cjs)$/, '')
stripJsExtension(s) ==
    IF \E e \in JsExtensions : endsWith(s, e)
    THEN LET e == CHOOSE x \in JsExtensions : endsWith(s, x)
         IN  SubSeq(s, 1, Len(s) - Len(e))
    ELSE s

\* the non-empty components of a path
Segments(p) == SelectSeq(split(p, "/"), LAMBDA part : part # <<>>)

CommonLength(a, b) ==
    First({k \in 0..Len(a) : k = Len(a) \/ k >= Len(b) \/ a[k + 1] # b[k + 1]})

\* path.posix.relative(from, to) of two absolute, normalized paths
relative(from, to) ==
    LET a == Segments(from)
        b == Segments(to)
        k == CommonLength(a, b)
    IN  join([i \in 1..(Len(a) - k) |-> <<".", ".">>] \o SubSeq(b, k + 1, Len(b)), "/")

\* the workspace folder, and the candidate file whose import statement is scanned
WorkspaceRoot == <<"/", "w">>
Importer == <<"/", "w", "/", "m", ".", "t", "s">>

\* tsconfig paths { "@/*": ["s/*"] }: the alias prefix and the directory it targets
AliasPrefix == <<"@">>
AliasTarget == <<"/", "w", "/", "s">>

\* one entry of a resolver's pathMappings: the alias with its "/*" removed and
\* the target directory, resolved against the workspace root
PathMapping(alias, target) == [alias |-> alias, target |-> target]

\* AliasResolver (tsconfig paths), CSSAliasResolver, PythonAliasResolver
AliasKinds == {"js", "css", "python"}

\* relativePath.replace(/^\//, '')
stripLeadingSlash(s) == IF startsWith(s, <<"/">>) THEN Tail(s) ELSE s

\* relativePath.replace(/\.py$/, '')
stripPyExtension(s) ==
    IF endsWith(s, <<".", "p", "y">>) THEN SubSeq(s, 1, Len(s) - 3) ELSE s

\* relativePath.replace(/\//g, '.')
slashesToDots(s) == [i \in DOMAIN s |-> IF s[i] = "/" THEN "." ELSE s[i]]

\* the alias path the three resolvers build from what follows the target
aliasPath(kind, alias, relativePath) ==
    IF kind = "js" THEN alias \o <<"/">> \o stripJsExtension(stripLeadingSlash(relativePath))
    ELSE IF kind = "css" THEN alias \o <<"/">> \o stripLeadingSlash(relativePath)
    ELSE LET modulePath == slashesToDots(stripPyExtension(stripLeadingSlash(relativePath)))
         IN  alias \o (IF modulePath # <<>> THEN <<".">> \o modulePath ELSE <<>>)

\* filePathToAlias of the three resolvers: the mappings are tried in the order
\* of the Map, the first target the path starts with wins; <<>> is undefined
RECURSIVE filePathToAliasOf(_, _, _)
filePathToAliasOf(kind, pathMappings, filePath) ==
    IF pathMappings = <<>> THEN <<>>
    ELSE LET m == Head(pathMappings)
         IN  IF kind = "css" /\ m.alias = <<"~">>
             THEN filePathToAliasOf(kind, Tail(pathMappings), filePath)
             ELSE IF startsWith(filePath, m.target)
                  THEN aliasPath(kind, m.alias, SubSeq(filePath, Len(m.target) + 1, Len(filePath)))
                  ELSE filePathToAliasOf(kind, Tail(pathMappings), filePath)

\* One import statement of the candidate file:
\*   form "named"    import { <binding> } from '<path>'
\*   form "default"  import <binding> from '<path>'
\*   form "bare"     import '<path>'
\*   form "require"  const <binding> = require('<path>'), y = require('<second>')
\* (the second require is absent when second is <<>>), each followed by <trailer>.
\* quote is the character that delimits <path>.
Statement(form, binding, path, second, quote, trailer) ==
    [form |-> form, binding |-> binding, path |-> path, second |-> second,
     quote |-> quote, trailer |-> trailer]

Forms == {"named", "default", "bare", "require"}

SingleQuote == "'"
DoubleQuote == "\""

\* what follows the statement on its line: nothing, `;`, or `;//"`
Trailers == {<<>>, <<";">>, <<";", "/", "/", DoubleQuote>>}

\* ImportMatch: the path captured, and the token of the line (its line and
\* startColumn .. endColumn) it was captured from
ImportMatch(importPath, token) == [importPath |-> importPath, token |-> token]

\* ImportScanner.scanDocument on the statement: the matches of its patterns.
\* The clause between `import` and `from` must consist of [\w\s{},*].
scanDocument(stmt) ==
    IF stmt.form = "default" /\ \E i \in DOMAIN stmt.binding : stmt.binding[i] \notin WordChars
    THEN <<>>
    ELSE IF stmt.form = "require" /\ stmt.second # <<>>
         THEN <<ImportMatch(stmt.path, "path"), ImportMatch(stmt.second, "second")>>
         ELSE <<ImportMatch(stmt.path, "path")>>

\* ImportFormatter.isGoImport: import "<path>" with a path of [\w./]+
isGoImport(stmt) ==
    /\ stmt.form = "bare"
    /\ stmt.path # <<>>
    /\ \A i \in DOMAIN stmt.path : stmt.path[i] \in WordChars \cup {".", "/"}

\* ImportFormatter.isPythonImport: `import` followed by [\w.]+
isPythonImport(stmt) ==
    /\ stmt.form = "default"
    /\ stmt.binding # <<>>
    /\ stmt.binding[1] \in WordChars \cup {"."}

\* [\w.]+ at the start of s: the length of the longest such prefix
ModulePrefix(s) ==
    First({k \in 0..Len(s) : k = Len(s) \/ s[k + 1] \notin WordChars \cup {"."}})

\* ImportFormatter.detectQuoteStyle: a double quote anywhere in the line wins
detectQuoteStyle(stmt) ==
    IF stmt.quote = DoubleQuote \/ includes(stmt.trailer, <<DoubleQuote>>)
    THEN DoubleQuote
    ELSE SingleQuote

\* ImportFormatter.formatImportPath with quoteStyle 'auto': the line with newPath
\* written into it.  buildFormattedImport writes the first quoted path of the line.
formatImportPath(stmt, newPath) ==
    IF isGoImport(stmt)
    THEN [stmt EXCEPT !.path = newPath]
    ELSE IF isPythonImport(stmt)
         THEN LET k == ModulePrefix(stmt.binding)
              IN  [stmt EXCEPT !.binding = newPath \o SubSeq(stmt.binding, k + 1, Len(stmt.binding))]
         ELSE [stmt EXCEPT !.path = newPath, !.quote = detectQuoteStyle(stmt)]

\* vscode.TextEdit.replace(range, newText).  The range is the whole line ("line")
\* or the columns of one path token; newText is then a line or a path.  imp is the
\* token of the import the edit was emitted for.
TextEdit(range, newText, imp) == [range |-> range, newText |-> newText, imp |-> imp]

\* two ranges of the line share a position
Overlap(r1, r2) == r1 = r2 \/ r1 = "line" \/ r2 = "line"

\* the line after one edit
ApplyEdit(stmt, edit) ==
    IF edit.range = "line"
    THEN edit.newText
    ELSE [stmt EXCEPT ![edit.range] = edit.newText]

\* the line after the edits, taken in order
RECURSIVE ApplyEdits(_, _)
ApplyEdits(stmt, edits) ==
    IF edits = <<>>
    THEN stmt
    ELSE ApplyEdits(ApplyEdit(stmt, Head(edits)), Tail(edits))

\* the import path computed in scanFileForFolderImports
FolderImportPath(importPath, oldRelativePath, newRelativePath, oldFolderName, newFolderName) ==
    IF includes(importPath, oldRelativePath)
    THEN replace(importPath, oldRelativePath, newRelativePath)
    ELSE IF includes(importPath, oldFolderName)
         THEN replaceWords(importPath, oldFolderName, newFolderName, 1)
         ELSE importPath

\* RenameHandler.scanFileForFolderImports: the TextEdits for the file, one per import
scanFileForFolderImports(stmt, oldFolder, newFolder) ==
    LET imports == scanDocument(stmt)
        oldRelativePath == replace(oldFolder, WorkspaceRoot \o <<"/">>, <<>>)
        newRelativePath == replace(newFolder, WorkspaceRoot \o <<"/">>, <<>>)
        NewPath(importPath) ==
            FolderImportPath(importPath, oldRelativePath, newRelativePath,
                             basename(oldFolder), basename(newFolder))
        changed == SelectSeq(imports, LAMBDA imp : NewPath(imp.importPath) # imp.importPath)
    IN  [i \in 1..Len(changed) |->
            TextEdit("line", formatImportPath(stmt, NewPath(changed[i].importPath)),
                     changed[i].token)]

\* RenameHandler.handleFolderRename for the candidate file (a .ts file)
handleFolderRename(stmt, oldFolder, newFolder) ==
    IF startsWith(Importer, newFolder \o <<"/">>) \/ Importer = newFolder
    THEN <<>>
    ELSE scanFileForFolderImports(stmt, oldFolder, newFolder)

\* the test both doesImportMatchFile and handleJavaScriptImport call isAlias
isAlias(importPath) ==
    /\ ~startsWith(importPath, <<".">>)
    /\ ~startsWith(importPath, <<"/">>)
    /\ \/ startsWith(importPath, <<"@", "/">>)
       \/ startsWith(importPath, <<"~", "/">>)
       \/ includes(importPath, <<"/">>)

\* ImportScanner.doesImportMatchFile
doesImportMatchFile(importPath, oldFileName) ==
    IF isAlias(importPath)
    THEN stripJsExtension(basename(importPath)) = oldFileName
    ELSE IF ~startsWith(importPath, <<".">>) /\ ~startsWith(importPath, <<"/">>)
         THEN FALSE
         ELSE stripJsExtension(basename(importPath)) = oldFileName

\* AliasResolver.filePathToAlias with the one mapping of the rename model;
\* <<>> stands for undefined
filePathToAlias(filePath, aliased) ==
    IF aliased
    THEN filePathToAliasOf("js", <<PathMapping(AliasPrefix, AliasTarget)>>, filePath)
    ELSE <<>>

\* a conversion that answers every import with the relative path
HandleJavaScriptImportRelative(toPath, fromPath, originalImport, aliased) ==
    LET rel == stripJsExtension(relative(dirname(fromPath), toPath))
    IN  IF ~startsWith(rel, <<".">>) /\ ~startsWith(rel, <<"/">>)
        THEN <<".", "/">> \o rel
        ELSE rel

\* PathUtils.handleJavaScriptImport
handleJavaScriptImport(toPath, fromPath, originalImport, aliased) ==
    IF originalImport # <<>> /\ isAlias(originalImport)
    THEN IF filePathToAlias(toPath, aliased) # <<>>
         THEN filePathToAlias(toPath, aliased)
         ELSE LET pathParts == split(originalImport, "/")
              IN  join([pathParts EXCEPT ![Len(pathParts)] = stripJsExtension(basename(toPath))], "/")
    ELSE LET rel == stripJsExtension(relative(dirname(fromPath), toPath))
         IN  IF ~startsWith(rel, <<".">>) /\ ~startsWith(rel, <<"/">>)
             THEN <<".", "/">> \o rel
             ELSE rel

\* the fast path of scanFileForImports: the file text mentions the old base name
hasReference(stmt, baseNameNoExt) ==
    \/ includes(stmt.path, baseNameNoExt)
    \/ includes(stmt.binding, baseNameNoExt)
    \/ includes(stmt.second, baseNameNoExt)

\* RenameHandler.scanFileForImports: the TextEdits for the file, one per import
scanFileForImports(stmt, oldFile, newFile, aliased) ==
    LET oldFileName == stripJsExtension(basename(oldFile))
        imports == scanDocument(stmt)
        NewPath(importPath) == handleJavaScriptImport(newFile, Importer, importPath, aliased)
        changed == SelectSeq(imports, LAMBDA imp :
                       /\ doesImportMatchFile(imp.importPath, oldFileName)
                       /\ NewPath(imp.importPath) # imp.importPath)
    IN  IF ~hasReference(stmt, oldFileName)
        THEN <<>>
        ELSE [i \in 1..Len(changed) |->
                 TextEdit(changed[i].token, NewPath(changed[i].importPath), changed[i].token)]

\* RenameHandler.handleFileRename for the candidate file
handleFileRename(stmt, oldFile, newFile, aliased) ==
    IF Importer = newFile
    THEN <<>>
    ELSE scanFileForImports(stmt, oldFile, newFile, aliased)

\* the import paths the candidate file may hold:
\*   ./u/x  ./uv/x  u  u/x  ./s/u  ./u  ./x  s/u/x  x/u  @/u
ImportPaths ==
    { <<".", "/", "u", "/", "x">>,
      <<".", "/", "u", "v", "/", "x">>,
      <<"u">>,
      <<"u", "/", "x">>,
      <<".", "/", "s", "/", "u">>,
      <<".", "/", "u">>,
      <<".", "/", "x">>,
      <<"s", "/", "u", "/", "x">>,
      <<"x", "/", "u">>,
      <<"@", "/", "u">> }

\* the renames requested:
\*   files    /w/u.ts -> /w/v.ts   /w/u.ts -> /w/uv.ts   /w/u.ts -> /w/s/u.ts   /w/s/u.ts -> /w/s/v.ts
\*   folders  /w/u -> /w/uv   /w/u -> /w/v   /w/u -> /w/s/u   /w/s/u -> /w/s/v
RenameRequests ==
    { [kind |-> "file", old |-> <<"/", "w", "/", "u", ".", "t", "s">>,
       new |-> <<"/", "w", "/", "v", ".", "t", "s">>],
      [kind |-> "file", old |-> <<"/", "w", "/", "u", ".", "t", "s">>,
       new |-> <<"/", "w", "/", "u", "v", ".", "t", "s">>],
      [kind |-> "file", old |-> <<"/", "w", "/", "u", ".", "t", "s">>,
       new |-> <<"/", "w", "/", "s", "/", "u", ".", "t", "s">>],
      [kind |-> "file", old |-> <<"/", "w", "/", "s", "/", "u", ".", "t", "s">>,
       new |-> <<"/", "w", "/", "s", "/", "v", ".", "t", "s">>],
      [kind |-> "folder", old |-> <<"/", "w", "/", "u">>,
       new |-> <<"/", "w", "/", "u", "v">>],
      [kind |-> "folder", old |-> <<"/", "w", "/", "u">>,
       new |-> <<"/", "w", "/", "v">>],
      [kind |-> "folder", old |-> <<"/", "w", "/", "u">>,
       new |-> <<"/", "w", "/", "s", "/", "u">>],
      [kind |-> "folder", old |-> <<"/", "w", "/", "s", "/", "u">>,
       new |-> <<"/", "w", "/", "s", "/", "v">>] }

\* how often the edits of one request are computed: for the rename, and once again
Passes == 2

\* the second require of a line:  none  ./u/x  ./u
SecondPaths ==
    { <<>>,
      <<".", "/", "u", "/", "x">>,
      <<".", "/", "u">> }

\* the lines the candidate file may hold
Statements ==
    { Statement(form, <<"x">>, path, second, quote, trailer) :
        form \in Forms, path \in ImportPaths, second \in SecondPaths,
        quote \in {SingleQuote, DoubleQuote}, trailer \in Trailers }

RenameInit ==
    /\ HInit
    /\ \E request \in RenameRequests, stmt \in Statements, aliased \in BOOLEAN :
         /\ stmt.second # <<>> => stmt.form = "require"
         /\ rn = [stage |-> "requested", pass |-> 1, kind |-> request.kind,
                  old |-> request.old, new |-> request.new, aliased |-> aliased,
                  original |-> stmt, stmt |-> stmt, edits |-> <<>>]
    /\ bt = NoBatch
    /\ fl = NoFlow
    /\ fn = NoFunction /\ dv = NoView /\ pl = NoPool

\* computeEditsForEvent for a renamed file
ComputeFileEdits ==
    /\ rn.stage = "requested"
    /\ rn.kind = "file"
    /\ rn' = [rn EXCEPT !.stage = "computed",
                        !.edits = handleFileRename(rn.stmt, rn.old, rn.new, rn.aliased)]
    /\ UNCHANGED <<history, currentIndex, maxEntries, enabled, files, nextId, faults, last, calls, bt, fl, fn, dv, pl>>

\* computeEditsForEvent for a renamed folder
ComputeFolderEdits ==
    /\ rn.stage = "requested"
    /\ rn.kind = "folder"
    /\ rn' = [rn EXCEPT !.stage = "computed",
                        !.edits = handleFolderRename(rn.stmt, rn.old, rn.new)]
    /\ UNCHANGED <<history, currentIndex, maxEntries, enabled, files, nextId, faults, last, calls, bt, fl, fn, dv, pl>>

\* the TextEdits of the file applied to its text; the same request is then computed
\* again.  The host may refuse a batch that holds overlapping ranges.
ApplyTextEdits ==
    /\ rn.stage = "computed"
    /\ rn.pass < Passes
    /\ \E accepted \in BOOLEAN :
         /\ ~accepted => \E i, j \in DOMAIN rn.edits :
                            i # j /\ Overlap(rn.edits[i].range, rn.edits[j].range)
         /\ rn' = [rn EXCEPT !.stage = "requested",
                             !.pass = @ + 1,
                             !.stmt = IF accepted THEN ApplyEdits(@, rn.edits) ELSE @,
                             !.edits = <<>>]
    /\ UNCHANGED <<history, currentIndex, maxEntries, enabled, files, nextId, faults, last, calls, bt, fl, fn, dv, pl>>

NextRename ==
    \/ ComputeFileEdits
    \/ ComputeFolderEdits
    \/ ApplyTextEdits

SpecRename == RenameInit /\ [][NextRename]_vars

(***************************************************************************)
(* Edit computation: findAllEditsQuiet under TimeoutHandler.withTimeout,    *)
(* the size filter, and the worker pool BatchProcessor.processWithLimit.    *)
(***************************************************************************)
\* largest concurrency limit considered
MaxLimit == 2

\* the files vscode.workspace.findFiles returns, in order
Candidates == <<"g1", "g2", "g3">>

\* What a candidate file is: whether stat gives a size within the maximum
\* ("small"), above it ("large"), or fails ("unknown"); what scanning it gives
\* (a FileEdit, nothing, an exception); whether it is a Go file inside the
\* renamed folder.
FileKinds ==
    { [size |-> "small",   scan |-> "edit",   inside |-> FALSE],
      [size |-> "small",   scan |-> "none",   inside |-> FALSE],
      [size |-> "small",   scan |-> "throws", inside |-> FALSE],
      [size |-> "large",   scan |-> "edit",   inside |-> FALSE],
      [size |-> "unknown", scan |-> "edit",   inside |-> FALSE],
      [size |-> "small",   scan |-> "edit",   inside |-> TRUE] }

\* shouldProcessFile with a stat failure taken for a pass
ShouldProcessUnlessLarge(size) == size # "large"

\* BatchProcessor.shouldProcessFile
shouldProcessFile(size) == size = "small"

\* the promise withTimeout returns
Pending == [state |-> "pending"]
Rejected == [state |-> "rejected", message |-> "timed out"]
Resolved(value) == [state |-> "resolved", value |-> value]

\* withTimeout: the setTimeout callback
onTimer(promise, collected) ==
    IF promise = Pending THEN Rejected ELSE promise

\* withTimeout: operation().then(result => resolve(result))
onResult(promise, value) ==
    IF promise = Pending THEN Resolved(value) ELSE promise

\* a loop that waits only once more than limit promises are executing
WaitsAboveLimit(size, limit) == size > limit

\* processWithLimit: if (executing.size >= limit) await Promise.race(...)
waitsForSlot(size, limit) == size >= limit

\* a pool in which one failing file discards what the others gave
CollectOrAbort(results, file, outcome) ==
    IF outcome = "edit" THEN Append(results, file)
    ELSE IF outcome = "throws" THEN <<>> ELSE results

\* the FileEdits kept from the processors: a processor that fails or finds
\* nothing gives null, which results.filter(r => r !== null) drops
collect(results, file, outcome) ==
    IF outcome = "edit" THEN Append(results, file) ELSE results

\* what the callers of findAllEditsQuiet make of its promise
NotReturned == [outcome |-> "pending"]
NoChanges == [outcome |-> "none"]
WorkspaceEdit(edits) == [outcome |-> "edits", edits |-> edits]
Failure(message) == [outcome |-> "error", message |-> message]
Callers == {"computeEditsForEvent", "handleRenameWithConfirmation"}

\* computeEditsForEvent: null when there is nothing to edit, and null from its
\* catch block when findAllEditsQuiet throws
computeEditsForEvent(promise) ==
    IF promise.state = "rejected" THEN NoChanges
    ELSE IF promise.value = <<>> THEN NoChanges ELSE WorkspaceEdit(promise.value)

\* handleRenameWithConfirmation up to the preview: its catch block shows the
\* error, an empty list shows "No import updates needed"
awaitFindAllEdits(promise) ==
    IF promise.state = "rejected" THEN Failure(promise.message)
    ELSE IF promise.value = <<>> THEN NoChanges ELSE WorkspaceEdit(promise.value)

BatchInit ==
    /\ history = <<>> /\ currentIndex = -1 /\ maxEntries = 1 /\ enabled = TRUE
    /\ files \in [Files -> {"a"}] /\ nextId = 1 /\ faults = 0
    /\ last = [op |-> "init", ret |-> FALSE, preIndex |-> -1, preLen |-> 0, preFiles |-> <<>>]
    /\ calls = [c \in CallIds |-> Idle]
    /\ rn = NoRename
    /\ fl = NoFlow
    /\ fn = NoFunction /\ dv = NoView /\ pl = NoPool
    /\ \E kind \in {"file", "folder"}, limit \in 1..MaxLimit, caller \in Callers,
          attr \in [{Candidates[n] : n \in DOMAIN Candidates} -> FileKinds] :
         /\ kind = "file" => \A f \in DOMAIN attr : ~attr[f].inside
         /\ bt = [phase |-> "filter", kind |-> kind, limit |-> limit, attr |-> attr,
                  j |-> 1, valid |-> <<>>, items |-> <<>>, insideFolder |-> <<>>,
                  i |-> 1, executing |-> {}, waiting |-> FALSE,
                  started |-> {}, scanned |-> {}, edits |-> <<>>,
                  timedOut |-> FALSE, promise |-> Pending, errorShown |-> FALSE,
                  caller |-> caller, returned |-> NotReturned]

BatchFrame ==
    UNCHANGED <<history, currentIndex, maxEntries, enabled, files, nextId, faults, last, calls, rn, fl, fn, dv, pl>>

\* where the computation goes once findAllEditsQuiet has filtered the files
AfterFilter(b) ==
    IF b.kind = "folder" /\ b.valid # <<>>
    THEN [b EXCEPT !.phase = "refilter", !.j = 1]
    ELSE [b EXCEPT !.phase = "pool", !.items = b.valid]

\* where it goes once handleFolderRename has separated the files
AfterRefilter(b) ==
    IF b.insideFolder # <<>>
    THEN [b EXCEPT !.phase = "package", !.j = 1]
    ELSE [b EXCEPT !.phase = "pool"]

\* findAllEditsQuiet: one iteration of the size filter over the files found
FilterFile ==
    /\ bt.phase = "filter"
    /\ LET f == Candidates[bt.j]
           b == [bt EXCEPT !.j = @ + 1,
                           !.valid = IF shouldProcessFile(bt.attr[f].size)
                                     THEN Append(@, f) ELSE @]
       IN  bt' = IF bt.j = Len(Candidates) THEN AfterFilter(b) ELSE b
    /\ BatchFrame

\* handleFolderRename: one iteration of the loop that sets aside the Go files
\* inside the renamed folder and checks the size of the others
RefilterFile ==
    /\ bt.phase = "refilter"
    /\ LET f == bt.valid[bt.j]
           b == IF bt.attr[f].inside
                THEN [bt EXCEPT !.j = @ + 1, !.insideFolder = Append(@, f)]
                ELSE [bt EXCEPT !.j = @ + 1,
                                !.items = IF shouldProcessFile(bt.attr[f].size)
                                          THEN Append(@, f) ELSE @]
       IN  bt' = IF bt.j = Len(bt.valid) THEN AfterRefilter(b) ELSE b
    /\ BatchFrame

\* handleFolderRename: updateGoPackageDeclaration of one file inside the folder
UpdatePackage ==
    /\ bt.phase = "package"
    /\ LET f == bt.insideFolder[bt.j]
           b == [bt EXCEPT !.j = @ + 1,
                           !.scanned = @ \cup {f},
                           !.edits = collect(@, f, bt.attr[f].scan)]
       IN  bt' = IF bt.j = Len(bt.insideFolder) THEN [b EXCEPT !.phase = "pool"] ELSE b
    /\ BatchFrame

\* processWithLimit: the loop invokes the processor for the next item
StartTask ==
    /\ bt.phase = "pool"
    /\ bt.i <= Len(bt.items)
    /\ ~bt.waiting
    /\ LET f == bt.items[bt.i]
       IN  bt' = [bt EXCEPT !.i = @ + 1,
                            !.started = @ \cup {f},
                            !.executing = @ \cup {f},
                            !.waiting = waitsForSlot(Cardinality(bt.executing \cup {f}), bt.limit)]
    /\ BatchFrame

\* the processor of one file settles: handleFileRename checks the size again and
\* scans inside try / catch; handleFolderRename scans inside try / catch
FinishTask(f) ==
    /\ bt.phase = "pool"
    /\ f \in bt.executing
    /\ LET scans == bt.kind = "folder" \/ shouldProcessFile(bt.attr[f].size)
       IN  bt' = [bt EXCEPT !.executing = @ \ {f},
                            !.waiting = FALSE,
                            !.scanned = IF scans THEN @ \cup {f} ELSE @,
                            !.edits = IF scans THEN collect(@, f, bt.attr[f].scan) ELSE @]
    /\ BatchFrame

\* processWithLimit returns after Promise.all; findAllEditsQuiet returns allEdits
PoolDone ==
    /\ bt.phase = "pool"
    /\ bt.i > Len(bt.items)
    /\ bt.executing = {}
    /\ bt' = [bt EXCEPT !.phase = "settled", !.promise = onResult(@, bt.edits)]
    /\ BatchFrame

\* the timer of withTimeout fires before the operation has resolved: the promise
\* is rejected, findAllEditsQuiet shows the message and rethrows; the operation
\* itself is not told and runs on
Timeout ==
    /\ bt.phase \in {"filter", "refilter", "package", "pool"}
    /\ ~bt.timedOut
    /\ bt' = [bt EXCEPT !.timedOut = TRUE,
                        !.promise = onTimer(@, bt.edits),
                        !.errorShown = (onTimer(bt.promise, bt.edits).state = "rejected")]
    /\ BatchFrame

\* the caller of findAllEditsQuiet resumes with the settled promise
Return ==
    /\ bt.phase # "none"
    /\ bt.promise # Pending
    /\ bt.returned = NotReturned
    /\ bt' = [bt EXCEPT !.returned = IF bt.caller = "computeEditsForEvent"
                                     THEN computeEditsForEvent(bt.promise)
                                     ELSE awaitFindAllEdits(bt.promise)]
    /\ BatchFrame

NextBatch ==
    \/ FilterFile
    \/ RefilterFile
    \/ UpdatePackage
    \/ StartTask
    \/ \E f \in bt.executing : FinishTask(f)
    \/ PoolDone
    \/ Timeout
    \/ Return

SpecBatch == BatchInit /\ [][NextBatch]_vars

(***************************************************************************)
(* One rename event, from the will-rename listener to the end of the       *)
(* did-rename listener.  fl.fileList is the files whose imports refer to   *)
(* what is renamed and fl.newText[i] the text of fl.fileList[i] once its   *)
(* edits are applied; autoApply and autoStage are the settings, and        *)
(* hasPythonFiles says whether a .py file is among the renamed ones.       *)
(***************************************************************************)
NoEdits == <<>>

FlowFrame == UNCHANGED <<calls, rn, bt, fn, dv, pl>>

FlowInit ==
    /\ history = <<>> /\ currentIndex = -1
    /\ maxEntries \in 1..MaxCap
    /\ enabled = TRUE
    /\ files \in [Files -> {"a"}]
    /\ nextId = 1 /\ faults = 0
    /\ last = [op |-> "init", ret |-> FALSE, preIndex |-> -1, preLen |-> 0, preFiles |-> <<>>]
    /\ calls = [c \in CallIds |-> Idle]
    /\ rn = NoRename
    /\ bt = NoBatch
    /\ fn = NoFunction /\ dv = NoView /\ pl = NoPool
    /\ \E autoApply, hasPythonFiles, autoStage \in BOOLEAN, fileList \in FileLists \cup {NoEdits} :
         \E newText \in [1..Len(fileList) -> Contents] :
           /\ \A i \in 1..Len(fileList) : newText[i] # files[fileList[i]]
           /\ fl = [step |-> "willRename", autoApply |-> autoApply,
                    hasPythonFiles |-> hasPythonFiles, autoStage |-> autoStage,
                    fileList |-> fileList, newText |-> newText, preFiles |-> files,
                    applied |-> FALSE, approved |-> FALSE, recorded |-> FALSE,
                    hostRejected |-> FALSE, successShown |-> FALSE, errorShown |-> FALSE,
                    infoShown |-> FALSE, staged |-> FALSE, submissions |-> 0]

\* prepareRenameEdits: whether the listener hands edits to the host
returnsEdits(autoApply, hasPythonFiles, fileList) ==
    (hasPythonFiles \/ autoApply) /\ fileList # NoEdits

\* how many waitUntil calls of one will-rename event are given the computed
\* WorkspaceEdit: the one of the listener and, for Python files, the one that
\* prepareRenameEdits makes itself
waitUntilCalls(hasPythonFiles) == IF hasPythonFiles THEN 2 ELSE 1

\* onWillRenameFiles: event.waitUntil(prepareRenameEdits(event)); the host applies
\* the WorkspaceEdit it is given together with the rename, or drops it
PrepareRenameEdits ==
    /\ fl.step = "willRename"
    /\ IF returnsEdits(fl.autoApply, fl.hasPythonFiles, fl.fileList)
       THEN \E hostOk \in BOOLEAN :
              /\ faults + (IF hostOk THEN 0 ELSE 1) <= MaxFaults
              /\ faults' = faults + (IF hostOk THEN 0 ELSE 1)
              /\ files' = IF hostOk THEN ApplyBatch(files, fl.fileList, fl.newText, 1) ELSE files
              /\ fl' = [fl EXCEPT !.step = "didRename", !.applied = hostOk,
                                  !.submissions = waitUntilCalls(fl.hasPythonFiles)]
       ELSE /\ fl' = [fl EXCEPT !.step = "didRename"]
            /\ UNCHANGED <<files, faults>>
    /\ UNCHANGED <<history, currentIndex, maxEntries, enabled, nextId, last>>
    /\ FlowFrame

\* onDidRenameFiles: handleRenameWithConfirmation up to the preview
HandleRenameWithConfirmation ==
    /\ fl.step = "didRename"
    /\ fl' = IF fl.autoApply THEN [fl EXCEPT !.step = "done"]
             ELSE IF fl.applied \/ fl.fileList = NoEdits
                  THEN [fl EXCEPT !.step = "done", !.infoShown = TRUE]
                  ELSE [fl EXCEPT !.step = "preview"]
    /\ UNCHANGED <<history, currentIndex, maxEntries, enabled, files, nextId, faults, last>>
    /\ FlowFrame

\* showAndWaitForConfirmation resolves to false: "Import updates cancelled"
CancelPreview ==
    /\ fl.step = "preview"
    /\ fl' = [fl EXCEPT !.step = "done", !.infoShown = TRUE]
    /\ UNCHANGED <<history, currentIndex, maxEntries, enabled, files, nextId, faults, last>>
    /\ FlowFrame

\* showAndWaitForConfirmation resolves to true: applyEditsWithHistory, then the
\* status bar message and the staging, whatever applyEdit resolved to
ConfirmPreview ==
    /\ fl.step = "preview"
    /\ \E snapOk, captureOk \in [1..Len(fl.fileList) -> BOOLEAN], applyOk \in BOOLEAN :
         /\ ApplyEditsWithHistory(fl.fileList, fl.newText, snapOk, applyOk, captureOk)
         /\ last' = Called(IF applyOk /\ enabled THEN "addEntry" ELSE "apply", applyOk)
         /\ fl' = [fl EXCEPT !.step = "done", !.approved = TRUE,
                             !.applied = applyOk, !.recorded = applyOk /\ enabled,
                             !.hostRejected = ~applyOk, !.errorShown = ~applyOk,
                             !.successShown = TRUE, !.staged = fl.autoStage,
                             !.submissions = @ + 1]
    /\ FlowFrame

NextFlow ==
    \/ PrepareRenameEdits
    \/ HandleRenameWithConfirmation
    \/ CancelPreview
    \/ ConfirmPreview

SpecFlow == FlowInit /\ [][NextFlow]_vars

(***************************************************************************)
(* The path functions, each applied once to arguments drawn in Init        *)
(***************************************************************************)
PathFrame ==
    UNCHANGED <<history, currentIndex, maxEntries, enabled, files, nextId, faults, last,
                calls, rn, bt, fl, dv, pl>>

PathIdle ==
    /\ history = <<>> /\ currentIndex = -1 /\ maxEntries = 1 /\ enabled = TRUE
    /\ files \in [Files -> {"a"}] /\ nextId = 1 /\ faults = 0
    /\ last = [op |-> "init", ret |-> FALSE, preIndex |-> -1, preLen |-> 0, preFiles |-> <<>>]
    /\ calls = [c \in CallIds |-> Idle]
    /\ rn = NoRename /\ bt = NoBatch /\ fl = NoFlow /\ dv = NoView /\ pl = NoPool

\* the mappings a configuration may list: "@" -> s, "@u" -> s/u, "@v" -> v
ConfiguredMappings ==
    { PathMapping(<<"@">>, <<"/", "w", "/", "s">>),
      PathMapping(<<"@", "u">>, <<"/", "w", "/", "s", "/", "u">>),
      PathMapping(<<"@", "v">>, <<"/", "w", "/", "v">>) }

\* every order in which a configuration may list some of them
PathMappingLists ==
    { l \in UNION { [1..n -> ConfiguredMappings] : n \in 0..Cardinality(ConfiguredMappings) } :
        \A i, j \in DOMAIN l : i # j => l[i] # l[j] }

\* files of the workspace, without their extension
FileStems ==
    { <<"/", "w", "/", "s", "/", "u", "/", "x">>,
      <<"/", "w", "/", "s", "/", "x">>,
      <<"/", "w", "/", "s", "u", "/", "x">>,
      <<"/", "w", "/", "v", "/", "x">>,
      <<"/", "w", "/", "m">> }

SourceExtension(kind) ==
    IF kind = "js" THEN <<".", "t", "s">>
    ELSE IF kind = "css" THEN <<".", "c", "s", "s">> ELSE <<".", "p", "y">>

AliasInit ==
    /\ PathIdle
    /\ \E kind \in AliasKinds, pathMappings \in PathMappingLists, stem \in FileStems :
         fn = [name |-> "filePathToAlias", kind |-> kind, pathMappings |-> pathMappings,
               filePath |-> stem \o SourceExtension(kind), done |-> FALSE, result |-> <<>>]

FilePathToAlias ==
    /\ fn.name = "filePathToAlias"
    /\ ~fn.done
    /\ fn' = [fn EXCEPT !.done = TRUE,
                        !.result = filePathToAliasOf(fn.kind, fn.pathMappings, fn.filePath)]
    /\ PathFrame

(***************************************************************************)
(* Python: the statement  from <module> import <name>  of the importing     *)
(* file, and the rename of a module file                                    *)
(***************************************************************************)
PythonStatement(module, name) == [module |-> module, name |-> name]

\* MultiLanguageScanner.scanPython: the import path is what follows "from"
scanPython(stmt) == stmt.module

\* MultiLanguageScanner.doesPythonImportMatchFile
doesPythonImportMatchFile(importPath, oldFileName) ==
    LET parts == split(importPath, ".")
    IN  parts[Len(parts)] = stripPyExtension(oldFileName)

\* '.'.repeat(dotCount)
Dots(n) == [i \in 1..n |-> "."]

\* PathUtils.handlePythonImport for a relative original import (one that starts
\* with a dot, which no alias does)
handlePythonImport(toPath, fromPath, originalImport) ==
    LET parts == split(stripPyExtension(relative(dirname(fromPath), toPath)), "/")
        dotCount == 1 + Cardinality({i \in DOMAIN parts : parts[i] = <<".", ".">>})
        moduleParts == SelectSeq(parts, LAMBDA part : part # <<".">> /\ part # <<".", ".">>)
    IN  Dots(dotCount) \o join(moduleParts, ".")

\* the fast path of scanFileForImports on the text of the statement
pythonHasReference(stmt, baseNameNoExt) ==
    includes(stmt.module, baseNameNoExt) \/ includes(stmt.name, baseNameNoExt)

\* RenameHandler.scanFileForImports for a Python file: the statement after its
\* TextEdit, the statement itself when no edit is made
scanPythonFileForImports(stmt, fromPath, oldFile, newFile) ==
    LET oldFileName == basename(oldFile)
        importPath == scanPython(stmt)
        newImportPath == handlePythonImport(newFile, fromPath, importPath)
    IN  IF fromPath = newFile THEN stmt
        ELSE IF ~pythonHasReference(stmt, stripPyExtension(oldFileName)) THEN stmt
        ELSE IF doesPythonImportMatchFile(importPath, oldFileName) /\ newImportPath # importPath
             THEN [stmt EXCEPT !.module = newImportPath]
             ELSE stmt

PythonImporters == { <<"/", "w", "/", "m", ".", "p", "y">>,
                     <<"/", "w", "/", "a", "/", "m", ".", "p", "y">>,
                     <<"/", "w", "/", "b", "/", "m", ".", "p", "y">> }

PythonMoves ==
    { [old |-> <<"/", "w", "/", "a", "/", "h", ".", "p", "y">>,
       new |-> <<"/", "w", "/", "b", "/", "h", ".", "p", "y">>],
      [old |-> <<"/", "w", "/", "a", "/", "h", ".", "p", "y">>,
       new |-> <<"/", "w", "/", "h", ".", "p", "y">>],
      [old |-> <<"/", "w", "/", "h", ".", "p", "y">>,
       new |-> <<"/", "w", "/", "a", "/", "h", ".", "p", "y">>],
      [old |-> <<"/", "w", "/", "a", "/", "h", ".", "p", "y">>,
       new |-> <<"/", "w", "/", "a", "/", "b", "/", "h", ".", "p", "y">>] }

PythonModules == { <<".">>,
                   <<".", "h">>,
                   <<".", "a">>,
                   <<".", "a", ".", "h">>,
                   <<".", ".", "h">>,
                   <<".", ".">>,
                   <<".", ".", "a", ".", "h">>,
                   <<".", ".", "a">>,
                   <<".", "x">> }

PythonNames == { <<"h">>, <<"x">> }

PythonInit ==
    /\ PathIdle
    /\ \E fromPath \in PythonImporters, move \in PythonMoves,
          module \in PythonModules, name \in PythonNames :
         fn = [name |-> "pythonImport", fromPath |-> fromPath,
               old |-> move.old, new |-> move.new,
               stmt |-> PythonStatement(module, name),
               done |-> FALSE, result |-> PythonStatement(module, name)]

ScanPythonFileForImports ==
    /\ fn.name = "pythonImport"
    /\ ~fn.done
    /\ fn' = [fn EXCEPT !.done = TRUE,
                        !.result = scanPythonFileForImports(fn.stmt, fn.fromPath, fn.old, fn.new)]
    /\ PathFrame

(***************************************************************************)
(* Go: the statement  import "<importPath>"  of the importing file, and the *)
(* rename of a source file.  modulePath is the module line of go.mod, <<>>  *)
(* when there is no go.mod.                                                 *)
(***************************************************************************)
\* oldFileName.replace(/\.go$/, '')
stripGoExtension(s) ==
    IF endsWith(s, <<".", "g", "o">>) THEN SubSeq(s, 1, Len(s) - 3) ELSE s

\* MultiLanguageScanner.doesGoImportMatchFile
doesGoImportMatchFile(importPath, oldFileName) ==
    LET parts == split(importPath, "/")
    IN  parts[Len(parts)] = stripGoExtension(oldFileName)

\* GoAliasResolver.filePathToAlias; <<>> stands for undefined
goFilePathToAlias(filePath, modulePath) ==
    IF modulePath = <<>> THEN <<>>
    ELSE IF startsWith(filePath, WorkspaceRoot)
         THEN LET relativePath == stripGoExtension(stripLeadingSlash(
                                      SubSeq(filePath, Len(WorkspaceRoot) + 1, Len(filePath))))
                  dirPath == dirname(relativePath)
              IN  IF dirPath = <<>> THEN modulePath ELSE modulePath \o <<"/">> \o dirPath
         ELSE <<>>

\* PathUtils.handleGoImport
handleGoImport(toPath, originalImport, modulePath) ==
    LET newPackageName == basename(dirname(toPath))
    IN  IF goFilePathToAlias(toPath, modulePath) # <<>>
        THEN goFilePathToAlias(toPath, modulePath)
        ELSE IF originalImport # <<>> /\ includes(originalImport, <<"/">>)
             THEN LET parts == split(originalImport, "/")
                  IN  join([parts EXCEPT ![Len(parts)] = newPackageName], "/")
             ELSE newPackageName

\* RenameHandler.scanFileForImports for a Go file: the import path after its
\* TextEdit, the path itself when no edit is made
scanGoFileForImports(importPath, oldFile, newFile, modulePath) ==
    LET oldFileName == basename(oldFile)
        newImportPath == handleGoImport(newFile, importPath, modulePath)
    IN  IF ~includes(importPath, stripGoExtension(oldFileName)) THEN importPath
        ELSE IF doesGoImportMatchFile(importPath, oldFileName) THEN newImportPath
             ELSE importPath

GoModulePaths == { <<>>, <<"g">> }

GoImportPaths == { <<"g", "/", "p">>,
                   <<"g", "/", "u">>,
                   <<"g", "/", "x", "/", "u">>,
                   <<"u">>,
                   <<"g", "/", "p", "/", "u">>,
                   <<"x">>,
                   <<"g">> }

GoRenames ==
    { [old |-> <<"/", "w", "/", "p", "/", "u", ".", "g", "o">>,
       new |-> <<"/", "w", "/", "p", "/", "v", ".", "g", "o">>],
      [old |-> <<"/", "w", "/", "u", "/", "u", ".", "g", "o">>,
       new |-> <<"/", "w", "/", "u", "/", "v", ".", "g", "o">>],
      [old |-> <<"/", "w", "/", "u", ".", "g", "o">>,
       new |-> <<"/", "w", "/", "v", ".", "g", "o">>],
      [old |-> <<"/", "w", "/", "p", "/", "u", ".", "g", "o">>,
       new |-> <<"/", "w", "/", "x", "/", "u", ".", "g", "o">>],
      [old |-> <<"/", "w", "/", "p", "/", "x", ".", "g", "o">>,
       new |-> <<"/", "w", "/", "p", "/", "u", ".", "g", "o">>] }

GoInit ==
    /\ PathIdle
    /\ \E importPath \in GoImportPaths, rename \in GoRenames, modulePath \in GoModulePaths :
         fn = [name |-> "goImport", importPath |-> importPath,
               old |-> rename.old, new |-> rename.new, modulePath |-> modulePath,
               done |-> FALSE, result |-> importPath]

ScanGoFileForImports ==
    /\ fn.name = "goImport"
    /\ ~fn.done
    /\ fn' = [fn EXCEPT !.done = TRUE,
                        !.result = scanGoFileForImports(fn.importPath, fn.old, fn.new, fn.modulePath)]
    /\ PathFrame

(***************************************************************************)
(* Go: the package declaration of a file when a folder is renamed.  A       *)
(* document is given by the line of its package declaration (0: none) and   *)
(* the declared name.  In the will-rename flow the files are still in the   *)
(* old folder when the edits are computed, in the did-rename flow they are  *)
(* in the new one.                                                          *)
(***************************************************************************)
\* Math.min(20, doc.lineCount)
PackageScanLines == 20

GoDocument(declLine, package) == [declLine |-> declLine, package |-> package]

PackageEdit(line, newText) == [line |-> line, newText |-> newText]

\* RenameHandler.updateGoPackageDeclaration: the TextEdits of the FileEdit,
\* <<>> for null
updateGoPackageDeclaration(doc, oldPackageName, newPackageName) ==
    IF doc.declLine \in 1..PackageScanLines /\ doc.package = oldPackageName
    THEN <<PackageEdit(doc.declLine, <<"p", "a", "c", "k", "a", "g", "e", " ">> \o newPackageName)>>
    ELSE <<>>

\* handleFolderRename: the test that sets a candidate file aside for its
\* package declaration
isInsideFolder(filePath, newPath) ==
    startsWith(filePath, newPath \o <<"/">>) \/ filePath = newPath

\* handleFolderRename for one candidate Go file: its package declaration edits
packageEditsOf(filePath, doc, oldPath, newPath) ==
    IF isInsideFolder(filePath, newPath) /\ endsWith(filePath, <<".", "g", "o">>)
    THEN updateGoPackageDeclaration(doc, basename(oldPath), basename(newPath))
    ELSE <<>>

RenameFlows == {"willRename", "didRename"}

GoFolderRenames ==
    { [old |-> <<"/", "w", "/", "u">>, new |-> <<"/", "w", "/", "v">>],
      [old |-> <<"/", "w", "/", "u">>, new |-> <<"/", "w", "/", "s", "/", "u", "v">>] }

GoDocuments ==
    { GoDocument(declLine, package) :
        declLine \in {0, 1, PackageScanLines, PackageScanLines + 1},
        package \in {<<"u">>, <<"m">>} }

\* where the candidate file is when the edits are computed
LocationOf(inside, flow, rename) ==
    IF inside
    THEN (IF flow = "willRename" THEN rename.old ELSE rename.new) \o <<"/", "x", ".", "g", "o">>
    ELSE WorkspaceRoot \o <<"/", "m", ".", "g", "o">>

PackageInit ==
    /\ PathIdle
    /\ \E flow \in RenameFlows, rename \in GoFolderRenames, inside \in BOOLEAN, doc \in GoDocuments :
         fn = [name |-> "goPackage", flow |-> flow, old |-> rename.old, new |-> rename.new,
               inside |-> inside, filePath |-> LocationOf(inside, flow, rename), doc |-> doc,
               done |-> FALSE, result |-> <<>>]

UpdateGoPackageDeclarations ==
    /\ fn.name = "goPackage"
    /\ ~fn.done
    /\ fn' = [fn EXCEPT !.done = TRUE,
                        !.result = packageEditsOf(fn.filePath, fn.doc, fn.old, fn.new)]
    /\ PathFrame

PathsInit ==
    \/ AliasInit
    \/ PythonInit
    \/ GoInit
    \/ PackageInit

NextPaths ==
    \/ FilePathToAlias
    \/ ScanPythonFileForImports
    \/ ScanGoFileForImports
    \/ UpdateGoPackageDeclarations

SpecPaths == PathsInit /\ [][NextPaths]_vars

(***************************************************************************)
(* diffViewProvider.ts: the preview panel and the did-rename handlers that  *)
(* wait for its confirmation.  Handler n belongs to the n-th rename event;  *)
(* dv.pendingResolve is the handler whose resolve function is stored in     *)
(* _pendingResolve (0: undefined), dv.diffItems the handler whose items     *)
(* the panel shows, dv.message the last message the webview has posted.     *)
(***************************************************************************)
MaxConfirmations == 3

Handlers == 1..MaxConfirmations

ViewFrame ==
    UNCHANGED <<history, currentIndex, maxEntries, enabled, files, nextId, faults, last,
                calls, rn, bt, fl, fn, pl>>

ViewInit ==
    /\ history = <<>> /\ currentIndex = -1 /\ maxEntries = 1 /\ enabled = TRUE
    /\ files \in [Files -> {"a"}] /\ nextId = 1 /\ faults = 0
    /\ last = [op |-> "init", ret |-> FALSE, preIndex |-> -1, preLen |-> 0, preFiles |-> <<>>]
    /\ calls = [c \in CallIds |-> Idle]
    /\ rn = NoRename /\ bt = NoBatch /\ fl = NoFlow /\ fn = NoFunction /\ pl = NoPool
    /\ dv = [panel |-> "closed", pendingResolve |-> 0, diffItems |-> 0, message |-> "none",
             handler |-> [n \in Handlers |-> "idle"]]

\* this._pendingResolve(value); this._pendingResolve = undefined
settle(handler, pendingResolve, value) ==
    IF pendingResolve # 0
    THEN [handler EXCEPT ![pendingResolve] = IF value THEN "approved" ELSE "cancelled"]
    ELSE handler

\* handleRenameWithConfirmation of the next rename event reaches the preview:
\* updateDiff(diffItems), then showAndWaitForConfirmation()
ShowAndWaitForConfirmation(n) ==
    /\ dv.handler[n] = "idle"
    /\ \A k \in Handlers : k < n => dv.handler[k] # "idle"
    /\ dv' = [dv EXCEPT !.panel = "open", !.diffItems = n, !.pendingResolve = n,
                        !.handler[n] = "waiting"]
    /\ ViewFrame

\* the webview posts 'apply': _applyChanges, then the dispose listener
ApplyChanges ==
    /\ dv.panel = "open"
    /\ dv' = [dv EXCEPT !.panel = "closed", !.pendingResolve = 0, !.message = "apply",
                        !.handler = settle(@, dv.pendingResolve, TRUE)]
    /\ ViewFrame

\* the webview posts 'cancel': _cancelChanges, then the dispose listener
CancelChanges ==
    /\ dv.panel = "open"
    /\ dv' = [dv EXCEPT !.panel = "closed", !.pendingResolve = 0, !.message = "cancel",
                        !.handler = settle(@, dv.pendingResolve, FALSE)]
    /\ ViewFrame

\* the user closes the panel: the onDidDispose listener
ClosePanel ==
    /\ dv.panel = "open"
    /\ dv' = [dv EXCEPT !.panel = "closed", !.pendingResolve = 0,
                        !.handler = settle(@, dv.pendingResolve, FALSE)]
    /\ ViewFrame

\* a handler whose confirmation has been resolved runs to its end
ResumeHandler(n) ==
    /\ dv.handler[n] \in {"approved", "cancelled"}
    /\ dv' = [dv EXCEPT !.handler[n] = IF @ = "approved" THEN "applied" ELSE "dropped"]
    /\ ViewFrame

UserDecides == ApplyChanges \/ CancelChanges \/ ClosePanel

NextView ==
    \/ \E n \in Handlers : ShowAndWaitForConfirmation(n)
    \/ ApplyChanges
    \/ CancelChanges
    \/ ClosePanel
    \/ \E n \in Handlers : ResumeHandler(n)

\* the user eventually answers a panel that is open
SpecView == ViewInit /\ [][NextView]_vars /\ WF_vars(UserDecides)

(***************************************************************************)
(* performance.ts: one call processWithLimit(items, processor, limit,       *)
(* cancellationToken).  Item n is the n-th of items; pl.outcome[n] says     *)
(* whether the promise of processor(items[n]) resolves or rejects,          *)
(* pl.invoked[n] how often the processor has been invoked for it.           *)
(***************************************************************************)
MaxItems == 3

Items == 1..MaxItems

PoolFrame ==
    UNCHANGED <<history, currentIndex, maxEntries, enabled, files, nextId, faults, last,
                calls, rn, bt, fl, fn, dv>>

PoolInit ==
    /\ history = <<>> /\ currentIndex = -1 /\ maxEntries = 1 /\ enabled = TRUE
    /\ files \in [Files -> {"a"}] /\ nextId = 1 /\ faults = 0
    /\ last = [op |-> "init", ret |-> FALSE, preIndex |-> -1, preLen |-> 0, preFiles |-> <<>>]
    /\ calls = [c \in CallIds |-> Idle]
    /\ rn = NoRename /\ bt = NoBatch /\ fl = NoFlow /\ fn = NoFunction /\ dv = NoView
    /\ \E limit \in 1..MaxLimit, hasToken \in BOOLEAN, outcome \in [Items -> {"resolves", "rejects"}] :
         pl = [phase |-> "loop", limit |-> limit, hasToken |-> hasToken, outcome |-> outcome,
               cancelRequested |-> FALSE, i |-> 1, executing |-> {}, waiting |-> FALSE,
               invoked |-> [n \in Items |-> 0], results |-> <<>>]

\* a loop that never looks at the token
NeverCancelled(hasToken, cancelRequested) == FALSE

\* cancellationToken?.isCancellationRequested
isCancellationRequested(hasToken, cancelRequested) == hasToken /\ cancelRequested

\* .then(result => results.push(result)) / .catch(error => console.warn(...))
push(results, item, outcome) ==
    IF outcome = "resolves" THEN Append(results, item) ELSE results

\* one iteration of the for loop: the token is not set, the processor is invoked
\* for items[i] and, at the limit, the loop awaits Promise.race
PoolStart ==
    /\ pl.phase = "loop"
    /\ ~pl.waiting
    /\ pl.i <= MaxItems
    /\ ~isCancellationRequested(pl.hasToken, pl.cancelRequested)
    /\ pl' = [pl EXCEPT !.i = @ + 1,
                        !.invoked[pl.i] = @ + 1,
                        !.executing = @ \cup {pl.i},
                        !.waiting = waitsForSlot(Cardinality(pl.executing \cup {pl.i}), pl.limit)]
    /\ PoolFrame

\* the loop ends, at the last item or at the break, and awaits Promise.all
PoolLoopEnd ==
    /\ pl.phase = "loop"
    /\ ~pl.waiting
    /\ pl.i > MaxItems \/ isCancellationRequested(pl.hasToken, pl.cancelRequested)
    /\ pl' = [pl EXCEPT !.phase = "joining"]
    /\ PoolFrame

\* the promise of one processor call settles: then / catch, finally
PoolSettle(n) ==
    /\ pl.phase \in {"loop", "joining"}
    /\ n \in pl.executing
    /\ pl' = [pl EXCEPT !.executing = @ \ {n},
                        !.waiting = FALSE,
                        !.results = push(@, n, pl.outcome[n])]
    /\ PoolFrame

\* Promise.all resolves: return results
PoolReturn ==
    /\ pl.phase = "joining"
    /\ pl.executing = {}
    /\ pl' = [pl EXCEPT !.phase = "returned"]
    /\ PoolFrame

\* the owner of the token requests cancellation
PoolCancel ==
    /\ pl.phase \in {"loop", "joining"}
    /\ pl.hasToken
    /\ ~pl.cancelRequested
    /\ pl' = [pl EXCEPT !.cancelRequested = TRUE]
    /\ PoolFrame

NextPool ==
    \/ PoolStart
    \/ PoolLoopEnd
    \/ \E n \in Items : PoolSettle(n)
    \/ PoolReturn
    \/ PoolCancel

SpecPool == PoolInit /\ [][NextPool]_vars

(***************************************************************************)
(* Claims about the ledger under sequential calls                           *)
(***************************************************************************)
\* the entries of h, as a set
Entries(h) == {h[k] : k \in 1..Len(h)}

\* the entry appended by the addEntry step that is being taken
IsNewEntry(e) == e.id = nextId

\* C1: addEntry called while the cursor is not at the tail discards every
\* entry after the cursor before appending: afterwards the new entry is the
\* last entry, the cursor points at it, canRedo() is false, and no entry that
\* was after the cursor is left.
C1_AddEntryTruncatesRedoTail ==
    [][(last'.op = "addEntry" /\ currentIndex < Len(history) - 1) =>
         /\ Len(history') >= 1
         /\ IsNewEntry(history'[Len(history')])
         /\ currentIndex' = Len(history') - 1
         /\ ~canRedo(history', currentIndex')
         /\ \A k \in (currentIndex + 2)..Len(history) : history[k] \notin Entries(history')
      ]_vars

\* C1 witness: an addEntry has run from a cursor two places before the tail
C1_Witness ==
    /\ last.op = "addEntry"
    /\ last.preIndex < last.preLen - 2
    /\ Len(history) = 1

\* C2: after every addEntry (history enabled, maxEntries >= 1) at most
\* maxEntries entries are stored; when the cap is exceeded exactly the oldest
\* entry is evicted, the remaining entries keep their order, and the cursor
\* still points at the newly added entry.
C2_AddEntryCapEvictsOldest ==
    [][last'.op = "addEntry" =>
         LET kept == Slice0(history, currentIndex + 1)
             before == Slice0(history', Len(history') - 1)
         IN  /\ enabled /\ maxEntries >= 1
             /\ 1 <= Len(history') /\ Len(history') <= maxEntries
             /\ IsNewEntry(history'[Len(history')])
             /\ currentIndex' = Len(history') - 1
             /\ IF Len(kept) + 1 > maxEntries
                THEN Len(kept) >= 1 /\ before = Tail(kept)
                ELSE before = kept
      ]_vars

\* C2 witness: an addEntry has pushed a ledger of two entries past its cap
C2_Witness ==
    /\ last.op = "addEntry"
    /\ maxEntries >= 2
    /\ last.preIndex + 2 > maxEntries
    /\ Len(history) = maxEntries

\* C3: undo(), when the cursor is >= 0, writes originalContent to every file
\* of the entry at the cursor, moves the cursor back by exactly one and
\* returns true; when the cursor is -1 it returns false and changes neither
\* a file nor the cursor.
C3_UndoRestoresEveryFile ==
    [][last'.op = "undo" =>
         IF currentIndex >= 0
         THEN /\ \A k \in 1..Len(history[currentIndex + 1].changes) :
                    LET c == history[currentIndex + 1].changes[k]
                    IN  files'[c.filePath] = c.originalContent
              /\ currentIndex' = currentIndex - 1
              /\ last'.ret
         ELSE /\ ~last'.ret
              /\ files' = files
              /\ currentIndex' = currentIndex
      ]_vars

\* C4: a successful undo followed by a successful redo is a round trip: the
\* cursor, the entry list and the text of every file of the entry are what
\* they were before the undo; redo at the tail returns false and changes
\* nothing.
C4_RedoAfterUndoRoundTrip ==
    [][last'.op = "redo" =>
         /\ (last.op = "undo" /\ last.ret /\ last'.ret) =>
               /\ currentIndex' = last.preIndex
               /\ history' = history
               /\ \A k \in 1..Len(history[currentIndex' + 1].changes) :
                     LET c == history[currentIndex' + 1].changes[k]
                     IN  files'[c.filePath] = last.preFiles[c.filePath]
         /\ ~canRedo(history, currentIndex) =>
               /\ ~last'.ret
               /\ UNCHANGED <<history, currentIndex, files>>
      ]_vars

(***************************************************************************)
(* Claims about overlapping calls                                           *)
(***************************************************************************)
UndoInFlight(c) == calls[c].op = "undo"

\* C5: addEntry, undo and redo on the shared ledger are serialized, so every
\* interleaving of overlapping calls ends as some sequential order would: the
\* cursor never leaves -1 .. length - 1, two overlapping undo() calls never
\* restore the same entry, and the entry an in-flight undo() restores is
\* still the entry at the cursor when its decrement is applied.
C5_CallsAreSerialized ==
    /\ -1 <= currentIndex /\ currentIndex <= Len(history) - 1
    /\ \A c, d \in CallIds :
         (c # d /\ UndoInFlight(c) /\ UndoInFlight(d)) => calls[c].entry # calls[d].entry
    /\ \A c \in CallIds :
         UndoInFlight(c) => /\ Defined(currentIndex)
                            /\ history[currentIndex + 1] = calls[c].entry

(***************************************************************************)
(* Claims about the edits computed for a rename                             *)
(***************************************************************************)
EditsComputed == rn.stage = "computed"

\* path.posix.normalize on path components: "." is dropped, ".." takes one back
RECURSIVE normalize(_, _)
normalize(parts, acc) ==
    IF parts = <<>>
    THEN acc
    ELSE IF Head(parts) = <<>> \/ Head(parts) = <<".">>
         THEN normalize(Tail(parts), acc)
         ELSE IF Head(parts) = <<".", ".">>
              THEN normalize(Tail(parts), SubSeq(acc, 1, Len(acc) - 1))
              ELSE normalize(Tail(parts), Append(acc, Head(parts)))

\* an external package reference: not relative, not absolute, under no configured alias
IsExternal(importPath, aliased) ==
    /\ ~startsWith(importPath, <<".">>)
    /\ ~startsWith(importPath, <<"/">>)
    /\ ~(aliased /\ startsWith(importPath, AliasPrefix \o <<"/">>))

\* the components of the workspace path an import written in the candidate file
\* resolves to (extension left out); <<>> for an external package
ImportTarget(importPath, aliased) ==
    IF IsExternal(importPath, aliased)
    THEN <<>>
    ELSE IF startsWith(importPath, AliasPrefix \o <<"/">>)
         THEN normalize(Segments(AliasTarget) \o Tail(split(importPath, "/")), <<>>)
         ELSE normalize(Segments(dirname(Importer)) \o split(importPath, "/"), <<>>)

ReferencesFile(importPath, file, aliased) ==
    ImportTarget(importPath, aliased) = Segments(stripJsExtension(file))

ReferencesFolder(importPath, folder, aliased) ==
    LET target == ImportTarget(importPath, aliased)
        dir == Segments(folder)
    IN  Len(dir) <= Len(target) /\ SubSeq(target, 1, Len(dir)) = dir

\* the import paths written on the line, by token
ImportTokens(stmt) == IF stmt.second = <<>> THEN {"path"} ELSE {"path", "second"}

ReferencesRenamed(importPath) ==
    IF rn.kind = "file"
    THEN ReferencesFile(importPath, rn.old, rn.aliased)
    ELSE ReferencesFolder(importPath, rn.old, rn.aliased)

\* an edit has been emitted for the import at that token
EditedFor(token) == \E i \in DOMAIN rn.edits : rn.edits[i].imp = token

\* the positions at which the components of segment occur, whole, in those of importPath
ComponentOccurrences(importPath, segment) ==
    LET parts == split(importPath, "/")
        seg == split(segment, "/")
    IN  {i \in 1..(Len(parts) - Len(seg) + 1) : SubSeq(parts, i, i + Len(seg) - 1) = seg}

\* importPath with that occurrence replaced and the rest of the path untouched
ReplaceComponents(importPath, segment, replacement) ==
    LET parts == split(importPath, "/")
        seg == split(segment, "/")
        i == First(ComponentOccurrences(importPath, segment))
    IN  join(SubSeq(parts, 1, i - 1) \o <<replacement>> \o SubSeq(parts, i + Len(seg), Len(parts)), "/")

\* C6: idempotence.  Once the edits computed for a rename (of a file or of a
\* folder) have been applied to the candidate file, computing the edits of the
\* same (old, new) pair against the resulting text yields no edit.
C6_RecomputedEditsAreEmpty ==
    (EditsComputed /\ rn.pass = 2) => rn.edits = <<>>

\* C7: no-op safety.  Computing the edits changes neither the ledger nor any
\* document, and when the import statement of the candidate file does not
\* reference the renamed file or folder the computed edit list is empty.
C7_NoReferenceNoEdits ==
    EditsComputed =>
        /\ history = <<>> /\ currentIndex = -1 /\ files = [f \in Files |-> "a"]
        /\ (\A t \in ImportTokens(rn.stmt) : ~ReferencesRenamed(rn.stmt[t])) => rn.edits = <<>>

\* C8: an import of an external package (a bare name, or a non-relative path
\* under no configured alias) is rewritten by no rename, of a file or of a folder.
C8_ExternalPackagesUntouched ==
    EditsComputed =>
        \A t \in ImportTokens(rn.stmt) : IsExternal(rn.stmt[t], rn.aliased) => ~EditedFor(t)

\* C9: for a file rename, an import that resolves to another file which only
\* shares the base name of the renamed file produces no edit.
C9_SameBaseNameOtherFileUntouched ==
    (EditsComputed /\ rn.kind = "file") =>
        \A t \in ImportTokens(rn.stmt) :
            ( /\ stripJsExtension(basename(rn.stmt[t])) = stripJsExtension(basename(rn.old))
              /\ ~ReferencesFile(rn.stmt[t], rn.old, rn.aliased) )
            => ~EditedFor(t)

\* C10: for a folder rename, the import path is rewritten if and only if it
\* contains the old folder's workspace-relative path as a run of whole path
\* components; then that occurrence becomes the new relative path and the rest
\* of the statement is untouched.
C10_FolderSegmentMatch ==
    (EditsComputed /\ rn.kind = "folder" /\ rn.pass = 1) =>
        LET oldRelativePath == replace(rn.old, WorkspaceRoot \o <<"/">>, <<>>)
            newRelativePath == replace(rn.new, WorkspaceRoot \o <<"/">>, <<>>)
        IN  \A t \in ImportTokens(rn.stmt) :
              IF ComponentOccurrences(rn.stmt[t], oldRelativePath) # {}
              THEN \E i \in DOMAIN rn.edits :
                     /\ rn.edits[i].imp = t
                     /\ ApplyEdit(rn.stmt, rn.edits[i]) =
                          [rn.stmt EXCEPT ![t] =
                              ReplaceComponents(@, oldRelativePath, newRelativePath)]
              ELSE ~EditedFor(t)

\* C11: style preservation.  For every emitted edit, of a file rename or of a
\* folder rename, the line after the edit differs from the original line only
\* inside the path token the edit was emitted for: keyword, binding, the quote
\* character, the other paths of the line and what follows are unchanged.
C11_EditChangesOnlyThePathToken ==
    EditsComputed =>
        \A i \in DOMAIN rn.edits :
            LET after == ApplyEdit(rn.stmt, rn.edits[i])
            IN  after = [rn.stmt EXCEPT ![rn.edits[i].imp] = after[rn.edits[i].imp]]

\* C12: the text replacements of one FileEdit, of a file rename or of a folder
\* rename, are pairwise non-overlapping ranges of the original line, also when
\* the line holds two matching import paths.
C12_EditRangesDoNotOverlap ==
    EditsComputed =>
        \A i, j \in DOMAIN rn.edits :
            i # j => ~Overlap(rn.edits[i].range, rn.edits[j].range)

(***************************************************************************)
(* Claims about the computation of the edits under SpecBatch               *)
(***************************************************************************)

BatchReturned == bt.phase # "none" /\ bt.returned # NotReturned

\* C13: when the timeout expires before the edits are computed, the caller gets
\* an outcome it can tell from "no changes needed", and never a partial list
\* of edits in place of the complete result
C13_TimeoutIsDistinguishable ==
    (BatchReturned /\ bt.promise.state = "rejected") =>
        /\ bt.returned # NoChanges
        /\ bt.returned.outcome # "edits"

\* C14: once the timeout has fired, no processor is invoked for a file that
\* had not been started yet
C14_NoTaskStartsAfterTimeout ==
    [][bt.timedOut => bt'.started = bt.started]_vars

CandidateSet == {Candidates[n] : n \in DOMAIN Candidates}
Range(seq) == {seq[n] : n \in DOMAIN seq}
FailsIn(f) == bt.attr[f].scan = "throws" \/ bt.attr[f].size = "unknown"
YieldsEdit(f) == bt.attr[f].scan = "edit" /\ bt.attr[f].size = "small"

\* C15: a candidate file whose stat, read or scan fails never aborts the
\* operation: the edits of every other candidate file are computed and, unless
\* the timeout fired, returned
C15_FileFailureIsIsolated ==
    (bt.phase = "settled" /\ \E f \in CandidateSet : FailsIn(f)) =>
        /\ \A g \in CandidateSet : YieldsEdit(g) => g \in Range(bt.edits)
        /\ ~bt.timedOut => bt.promise = Resolved(bt.edits)

\* C15 happens: a processor has thrown before another file gave its edit, and
\* the caller has received that edit
C15_Witness ==
    /\ bt.phase = "settled"
    /\ bt.returned.outcome = "edits"
    /\ \E f, g \in bt.scanned :
         /\ bt.attr[f].scan = "throws"
         /\ g \in Range(bt.returned.edits)
         /\ \E m, n \in DOMAIN bt.items : m < n /\ bt.items[m] = f /\ bt.items[n] = g

\* C16: never more than limit processor invocations are in flight at once,
\* whatever the order in which they complete
C16_AtMostLimitInFlight ==
    bt.phase # "none" => Cardinality(bt.executing) <= bt.limit

\* C16 happens: the pool is full, with a limit above one, while an item is
\* still waiting for its turn
C16_Witness ==
    /\ bt.phase = "pool"
    /\ bt.limit > 1
    /\ Cardinality(bt.executing) = bt.limit
    /\ bt.i <= Len(bt.items)

\* C17: a candidate file that is larger than the maximum, or whose size cannot
\* be read, is never scanned and gives no FileEdit, for file and folder renames
C17_LargeFilesAreSkipped ==
    bt.phase # "none" =>
        \A f \in CandidateSet :
            bt.attr[f].size # "small" => f \notin bt.scanned /\ f \notin Range(bt.edits)

\* C17 happens: a rename has settled with edits while a too large file and a
\* file of unknown size were among the candidates
C17_Witness ==
    /\ bt.phase = "settled"
    /\ bt.edits # <<>>
    /\ \E f, g \in CandidateSet :
         /\ bt.attr[f].size = "large" /\ bt.attr[f].scan = "edit"
         /\ bt.attr[g].size = "unknown" /\ bt.attr[g].scan = "edit"

(***************************************************************************)
(* Claims about one rename event under SpecFlow                            *)
(***************************************************************************)

\* C18: when the host rejects the batch (applyEdit resolves to false), no file
\* has changed, no history entry is recorded, a failure is reported and no
\* success is: no "Updated N import(s)" message and no staging
C18_ApplyFailureIsNotReportedAsSuccess ==
    (fl.step # "none" /\ fl.hostRejected) =>
        /\ files = fl.preFiles
        /\ history = <<>>
        /\ fl.errorShown
        /\ ~fl.successShown
        /\ ~fl.staged

\* C19: with autoApply off, no import edit is applied before the user has
\* approved it in the preview; when the preview is cancelled no file has
\* changed and no history entry is recorded
C19_NoEditWithoutApproval ==
    (fl.step # "none" /\ ~fl.autoApply) =>
        /\ fl.applied => fl.approved
        /\ ~fl.approved => files = fl.preFiles /\ history = <<>>

\* C20: once the import edits of a rename have been applied, by the will-rename
\* listener or after the preview, the ledger holds an entry for them that
\* undo can take back: canUndo() is true and the entry keeps the text every
\* edited file had before the rename
C20_AppliedEditsAreRecorded ==
    (fl.step = "done" /\ fl.applied) =>
        /\ canUndo(currentIndex)
        /\ LET entry == history[currentIndex + 1]
           IN  \A i \in DOMAIN fl.fileList :
                 \E n \in DOMAIN entry.changes :
                    /\ entry.changes[n].filePath = fl.fileList[i]
                    /\ entry.changes[n].originalContent = fl.preFiles[fl.fileList[i]]

(***************************************************************************)
(* Claims about the path functions under SpecPaths                         *)
(***************************************************************************)

\* the file lies under the directory, component by component
IsUnder(filePath, directory) == startsWith(filePath, directory \o <<"/">>)

MatchingMappings(pathMappings, filePath) ==
    {n \in DOMAIN pathMappings : IsUnder(filePath, pathMappings[n].target)}

\* C21: converting a file path to an alias uses the mapping with the longest
\* target the file lies under, and a target matches only the files under it as
\* whole path components; without such a mapping there is no alias
C21_LongestAliasTargetWins ==
    (fn.name = "filePathToAlias" /\ fn.done) =>
        LET matching == MatchingMappings(fn.pathMappings, fn.filePath)
        IN  IF matching = {} THEN fn.result = <<>>
            ELSE LET n == CHOOSE n \in matching :
                            \A k \in matching :
                                Len(fn.pathMappings[k].target) <= Len(fn.pathMappings[n].target)
                     m == fn.pathMappings[n]
                 IN  fn.result = aliasPath(fn.kind, m.alias,
                                           SubSeq(fn.filePath, Len(m.target) + 1, Len(fn.filePath)))

(***************************************************************************)
(* Claims about alias imports under SpecRename                             *)
(***************************************************************************)

\* the import is written with the configured alias
IsAliasStyle(importPath) == startsWith(importPath, AliasPrefix \o <<"/">>)

RECURSIVE Ancestor(_, _)
Ancestor(dir, hops) == IF hops = 0 \/ dir = <<>> THEN dir ELSE Ancestor(dirname(dir), hops - 1)

LeadingDots(module) ==
    Cardinality({i \in DOMAIN module : \A k \in 1..i : module[k] = "."})

\* the file a relative module path names, seen from the importing file
ModuleFile(fromPath, module) ==
    LET d == LeadingDots(module)
        rest == SubSeq(module, d + 1, Len(module))
        base == Ancestor(dirname(fromPath), d - 1)
    IN  base \o <<"/">> \o [i \in DOMAIN rest |-> IF rest[i] = "." THEN "/" ELSE rest[i]]

\* the file the statement imports: <module>.py, or <name>.py in package <module>
PythonTargets(fromPath, stmt) ==
    LET d == LeadingDots(stmt.module)
    IN  IF d = 0 THEN {}
        ELSE IF d = Len(stmt.module)
             THEN {ModuleFile(fromPath, stmt.module) \o stmt.name \o <<".", "p", "y">>}
             ELSE {ModuleFile(fromPath, stmt.module) \o <<".", "p", "y">>,
                   ModuleFile(fromPath, stmt.module) \o <<"/">> \o stmt.name \o <<".", "p", "y">>}

\* the parent-directory hops from the importing file's directory to the file
Hops(fromPath, toPath) ==
    Len(Segments(dirname(fromPath))) - CommonLength(Segments(dirname(fromPath)), Segments(toPath))

\* C23: when a Python module is moved, every relative import of it, in the
\* form  from . import h  and in the form  from .h import x , is rewritten so
\* that it names the module at its new place, with 1 + hops leading dots
C23_PythonRelativeImportRecomputed ==
    (fn.name = "pythonImport" /\ fn.done /\ fn.old \in PythonTargets(fn.fromPath, fn.stmt)
        /\ fn.fromPath # fn.old) =>
        /\ fn.new \in PythonTargets(fn.fromPath, fn.result)
        /\ LeadingDots(fn.result.module) = 1 + Hops(fn.fromPath, fn.new)

\* C24: renaming a Go source file inside its package, the directory unchanged,
\* changes no import path of any Go file
C24_GoFileRenameChangesNoImport ==
    (fn.name = "goImport" /\ fn.done /\ dirname(fn.old) = dirname(fn.new)) =>
        fn.result = fn.importPath

\* C25: when a folder is renamed, a Go file inside it that declares
\* package <oldName> in its first 20 lines gets exactly one edit, to
\* package <newName>, in the will-rename flow as in the did-rename flow; a Go
\* file outside the folder gets no such edit
C25_PackageDeclarationFollowsFolder ==
    (fn.name = "goPackage" /\ fn.done) =>
        IF fn.inside /\ fn.doc.declLine \in 1..PackageScanLines /\ fn.doc.package = basename(fn.old)
        THEN fn.result = <<PackageEdit(fn.doc.declLine,
                                       <<"p", "a", "c", "k", "a", "g", "e", " ">> \o basename(fn.new))>>
        ELSE fn.result = <<>>

(***************************************************************************)
(* Further claims about the ledger under sequential calls                  *)
(***************************************************************************)

\* C26: whatever addEntry, undo, redo and clearHistory calls have run one after
\* the other, host failures included, the cursor lies between -1 and the last
\* index of the entry list; an undo or redo that fails leaves the cursor and
\* the entry list as they were before the call
C26_CursorStaysInRange ==
    [][ /\ -1 <= currentIndex /\ currentIndex <= Len(history) - 1
        /\ -1 <= currentIndex' /\ currentIndex' <= Len(history') - 1
        /\ (last'.op \in {"undo", "redo"} /\ ~last'.ret) =>
              (currentIndex' = currentIndex /\ history' = history)
      ]_vars

\* C26 happens: an undo has failed part-way, after the text of one file had
\* already been put back, and the entry is still the one under the cursor
C26_Witness ==
    /\ last.op = "undo"
    /\ ~last.ret
    /\ canUndo(currentIndex)
    /\ currentIndex = last.preIndex
    /\ files # last.preFiles

\* C27: every FileChange of a recorded entry pairs its file with the text that
\* file had before the edits and the text it has after them, never the empty
\* placeholder and never the text of another file, also when reading one of
\* the files fails before or after the edits are applied
C27_EntryPairsFileWithItsOwnTexts ==
    [][last'.op = "addEntry" =>
         LET entry == history'[currentIndex' + 1]
         IN  \A k \in DOMAIN entry.changes :
                /\ entry.changes[k].originalContent = files[entry.changes[k].filePath]
                /\ entry.changes[k].newContent = files'[entry.changes[k].filePath]
                /\ entry.changes[k].newContent # Placeholder
      ]_vars

(***************************************************************************)
(* Further claims about one rename event under SpecFlow                    *)
(***************************************************************************)

\* C28: the edits computed for one rename event are handed to the host at most
\* once, counting the waitUntil of the will-rename listener, the waitUntil
\* inside prepareRenameEdits and the applyEdit of the confirmation handler
C28_EditsSubmittedAtMostOnce ==
    fl.step # "none" => fl.submissions <= 1

(***************************************************************************)
(* Claims about the preview panel under SpecView                           *)
(***************************************************************************)

\* C29: every call of showAndWaitForConfirmation is eventually resolved, by
\* Apply, by Cancel or by closing the panel, also when another call is made
\* while it is pending: no handler waits for its confirmation forever
C29_EveryConfirmationResolves ==
    \A n \in Handlers : (dv.handler[n] = "waiting") ~> (dv.handler[n] # "waiting")

(***************************************************************************)
(* Claims about processWithLimit under SpecPool                            *)
(***************************************************************************)

Occurs(results, n) == Cardinality({k \in DOMAIN results : results[k] = n})

====
